---- MODULE Spec2Model ----
(***************************************************************************)
(* KeySequenceParser.parse of react-hotkeys                                *)
(* (src/lib/shared/KeySequenceParser.js).                                  *)
(*                                                                         *)
(* A JavaScript string is a sequence of one-character strings; null is    *)
(* the empty tuple and a non-null object v is the one-element tuple <<v>>. *)
(* A key dictionary is a JavaScript object, modelled as the sequence of    *)
(* its property names in insertion order (Object.keys order).              *)
(***************************************************************************)
EXTENDS Integers, Sequences, FiniteSets

VARIABLES
  sequenceString,  \* the first argument of parse, composed by the caller
  typed,           \* how many fragments the caller has put into it
  options,         \* the second argument of parse
  faults,          \* the collaborators that throw on FaultyKey
  pc,              \* "compose" before the call of parse, "done" after it
  returned,        \* <<>> or <<the value parse returned>>
  thrown,          \* the exception parse let through to its caller
  raised,          \* the exception raised inside the try block
  stdCalls,        \* the calls of standardizeKeyName, in order
  validCalls,      \* the arguments of the calls of isValidKey, in order
  dicts            \* the key dictionaries completed, one per combination

vars == <<sequenceString, typed, options, faults, pc, returned, thrown, raised,
          stdCalls, validCalls, dicts>>

(***************************************************************************)
(* Bounds                                                                  *)
(***************************************************************************)
MaxFrags == 5

MaxSeqFrags == 7

MaxModFrags == 4

MaxFaultFrags == 4

(***************************************************************************)
(* Strings                                                                 *)
(***************************************************************************)
Range(s) == {s[i] : i \in 1..Len(s)}

\* the characters in use, in ascending UTF-16 code unit order
CodeUnits ==
  <<"\t", " ", "+", "/", "A", "B", "E", "S", "[", "]",
    "a", "b", "c", "e", "f", "h", "i", "l", "o", "p", "s", "t", "u">>

CharCode(c) == CHOOSE i \in 1..Len(CodeUnits) : CodeUnits[i] = c

\* \s of a regular expression
IsWhitespace(c) == c \in {" ", "\t"}

RECURSIVE StringLess(_, _)
\* x < y on strings, as Array.prototype.sort compares without a comparator
StringLess(x, y) ==
  IF y = <<>> THEN FALSE
  ELSE IF x = <<>> THEN TRUE
  ELSE IF x[1] = y[1] THEN StringLess(Tail(x), Tail(y))
  ELSE CharCode(x[1]) < CharCode(y[1])

\* String.prototype.indexOf(search) !== -1
Includes(string, search) ==
  \E i \in 1..(Len(string) - Len(search) + 1) :
    SubSeq(string, i, i + Len(search) - 1) = search

RECURSIVE split(_, _)
\* String.prototype.split(separator), separator a single character
split(string, separator) ==
  IF separator \notin Range(string) THEN <<string>>
  ELSE LET i == CHOOSE k \in 1..Len(string) :
                  /\ string[k] = separator
                  /\ \A j \in 1..(k-1) : string[j] # separator
       IN <<SubSeq(string, 1, i - 1)>>
            \o split(SubSeq(string, i + 1, Len(string)), separator)

RECURSIVE join(_, _)
\* Array.prototype.join(separator)
join(array, separator) ==
  IF array = <<>> THEN <<>>
  ELSE IF Len(array) = 1 THEN array[1]
  ELSE array[1] \o separator \o join(Tail(array), separator)

RECURSIVE sort(_)
\* Array.prototype.sort() of an array of distinct strings
sort(array) ==
  IF array = <<>> THEN <<>>
  ELSE LET m == CHOOSE i \in 1..Len(array) :
                  \A j \in 1..Len(array) :
                    j = i \/ array[j] = array[i] \/ StringLess(array[i], array[j])
           rest == [k \in 1..(Len(array) - 1) |->
                      IF k < m THEN array[k] ELSE array[k + 1]]
       IN <<array[m]>> \o sort(rest)

(***************************************************************************)
(* Collaborators imported by KeySequenceParser.js (lines 1-4).  Their      *)
(* sources are other files of the library; they are modelled from their    *)
(* documented contracts.  An armed fault makes the collaborator throw on   *)
(* the key FaultyKey, standing for an unexpected internal error.           *)
(***************************************************************************)
FaultyKey == <<"b">>

Collaborators == {"standardizeKeyName", "isValidKey", "normalizedCombinationId"}

RECURSIVE words(_)
\* the maximal whitespace-free substrings of a string, in order
words(string) ==
  IF string = <<>> THEN <<>>
  ELSE IF IsWhitespace(string[1]) THEN words(Tail(string))
  ELSE LET stops == {k \in 1..Len(string) : IsWhitespace(string[k])}
           end == IF stops = {} THEN Len(string) + 1
                  ELSE CHOOSE k \in stops : \A j \in stops : k <= j
       IN <<SubSeq(string, 1, end - 1)>>
            \o words(SubSeq(string, end, Len(string)))

\* trims the string and collapses every run of whitespace to one space
stripSuperfluousWhitespace(string) == join(words(string), <<" ">>)

toUpperCase(c) == IF c = "a" THEN "A" ELSE IF c = "b" THEN "B" ELSE c

\* canonical name of a raw key token under the modifier context
standardizeKeyName(keyName, modifiers) ==
  IF keyName = <<"e", "s", "c">> THEN <<"E", "s", "c", "a", "p", "e">>
  ELSE IF keyName = <<"p", "l", "u", "s">> THEN <<"+">>
  ELSE IF modifiers.shift /\ Len(keyName) = 1 THEN <<toUpperCase(keyName[1])>>
  ELSE keyName

ValidKeys ==
  { <<"a">>, <<"b">>, <<"A">>, <<"B">>, <<"+">>,
    <<"E", "s", "c", "a", "p", "e">>,
    <<"s", "h", "i", "f", "t">>, <<"a", "l", "t">> }

\* whether a canonical key name is a recognized key
isValidKey(keyName) == keyName \in ValidKeys

\* order-independent identifier of the key set of a dictionary
normalizedCombinationId(keyDictionary) == join(sort(keyDictionary), <<"+">>)

standardizeKeyNameThrows(keyName, armed) ==
  "standardizeKeyName" \in armed /\ keyName = FaultyKey

isValidKeyThrows(keyName, armed) ==
  "isValidKey" \in armed /\ keyName = FaultyKey

normalizedCombinationIdThrows(keyDictionary, armed) ==
  "normalizedCombinationId" \in armed /\ FaultyKey \in Range(keyDictionary)

(***************************************************************************)
(* parseCombination (lines 139-159)                                        *)
(***************************************************************************)
\* RegExp.prototype.toString() of /[sS]hift/ and /[aA]lt/: indexOf converts
\* its argument to a string and searches for it literally
ShiftPattern == <<"/", "[", "s", "S", "]", "h", "i", "f", "t", "/">>

AltPattern == <<"/", "[", "a", "A", "]", "l", "t", "/">>

\* line 140
shiftPressed(string) == Includes(string, ShiftPattern)

\* line 141
altPressed(string) == Includes(string, AltPattern)

\* faulty variant of MatchAt: the pattern lacks the alternative ^\+
MatchAtWithoutCaret(string, i) ==
  IF /\ i + 1 <= Len(string)
     /\ IsWhitespace(string[i])
     /\ string[i + 1] = "+" THEN <<2, <<string[i]>>>>
  ELSE IF /\ i + 2 <= Len(string)
          /\ string[i] # "+"
          /\ string[i + 1] = "+"
          /\ string[i + 2] = "+" THEN <<3, <<string[i], "+">>>>
  ELSE <<>>

\* the text matched at position i by /^\+|(\s|[^+]\+)\+/, as
\* <<length of the match, text of group 1>>, or <<>> when there is no match
MatchAt(string, i) ==
  IF i = 1 /\ string[1] = "+" THEN <<1, <<>>>>
  ELSE IF /\ i + 1 <= Len(string)
          /\ IsWhitespace(string[i])
          /\ string[i + 1] = "+" THEN <<2, <<string[i]>>>>
  ELSE IF /\ i + 2 <= Len(string)
          /\ string[i] # "+"
          /\ string[i + 1] = "+"
          /\ string[i + 2] = "+" THEN <<3, <<string[i], "+">>>>
  ELSE <<>>

\* string.replace(/^\+|(\s|[^+]\+)\+/, '$1plus'): the leftmost match only
replace(string) ==
  LET hits == {i \in 1..Len(string) : MatchAt(string, i) # <<>>}
  IN IF hits = {} THEN string
     ELSE LET i == CHOOSE k \in hits : \A j \in hits : k <= j
              m == MatchAt(string, i)
          IN SubSeq(string, 1, i - 1) \o m[2] \o <<"p", "l", "u", "s">>
               \o SubSeq(string, i + m[1], Len(string))

\* the raw key names the reduce callback is applied to (line 143)
keyNames(string) == split(replace(string), "+")

\* faulty variant of setKey: the names are pushed on a list
pushKey(keyDictionary, finalKeyName) == Append(keyDictionary, finalKeyName)

\* faulty variant of setKey: the callback returns a fresh dictionary
onlyKey(keyDictionary, finalKeyName) == <<finalKeyName>>

\* keyDictionary[finalKeyName] = true (line 155)
setKey(keyDictionary, finalKeyName) ==
  IF finalKeyName \in Range(keyDictionary) THEN keyDictionary
  ELSE Append(keyDictionary, finalKeyName)

\* faulty variant of validates: the option is read under a wrong name
validatesNever(opts) == FALSE

\* faulty variant of validates: the option is not consulted
validatesAlways(opts) == TRUE

\* if (options.ensureValidKeys) (line 149)
validates(opts) == opts.ensureValidKeys

\* lines 149-157 on the standardized name; acc.error is the pending exception
insert(acc, finalKeyName, opts, armed) ==
  IF validates(opts)
  THEN IF isValidKeyThrows(finalKeyName, armed)
       THEN [acc EXCEPT !.validCalls = Append(@, finalKeyName),
                        !.error = "Error"]
       ELSE IF ~isValidKey(finalKeyName)
       THEN [acc EXCEPT !.validCalls = Append(@, finalKeyName),
                        !.error = "InvalidKeyNameError"]
       ELSE [acc EXCEPT !.validCalls = Append(@, finalKeyName),
                        !.keyDictionary = setKey(@, finalKeyName)]
  ELSE [acc EXCEPT !.keyDictionary = setKey(@, finalKeyName)]

\* lines 144-147: the call of standardizeKeyName, then the rest
standardize(acc, keyName, string, modifiers, opts, armed) ==
  IF standardizeKeyNameThrows(keyName, armed)
  THEN [acc EXCEPT !.stdCalls =
          Append(@, [string |-> string, index |-> Len(acc.stdCalls) + 1,
                     keyName |-> keyName,
                     shift |-> modifiers.shift, alt |-> modifiers.alt]),
        !.error = "Error"]
  ELSE insert([acc EXCEPT !.stdCalls =
                 Append(@, [string |-> string, index |-> Len(acc.stdCalls) + 1,
                            keyName |-> keyName,
                            shift |-> modifiers.shift, alt |-> modifiers.alt])],
              standardizeKeyName(keyName, modifiers), opts, armed)

\* the reduce callback (lines 143-158)
reducer(acc, keyName, string, opts, armed) ==
  IF acc.error # "none" THEN acc
  ELSE standardize(acc, keyName, string,
                   [shift |-> shiftPressed(string), alt |-> altPressed(string)],
                   opts, armed)

RECURSIVE reduce(_, _, _, _, _)
reduce(acc, array, string, opts, armed) ==
  IF array = <<>> THEN acc
  ELSE reduce(reducer(acc, array[1], string, opts, armed),
              Tail(array), string, opts, armed)

\* the dictionary of the combination, with the calls made on the way
parseCombination(string, opts, armed) ==
  reduce([keyDictionary |-> <<>>, stdCalls |-> <<>>, validCalls |-> <<>>,
          error |-> "none"],
         keyNames(string), string, opts, armed)

(***************************************************************************)
(* KeySequenceParser.parse (lines 82-112)                                  *)
(***************************************************************************)
\* line 85
keyCombinationsArray(string) == split(stripSuperfluousWhitespace(string), " ")

\* faulty variant of nonTerminalCombinations: slice(0, length)
allCombinations(array) == array

\* line 88
nonTerminalCombinations(array) == SubSeq(array, 1, Len(array) - 1)

\* line 89
terminalCombination(array) == array[Len(array)]

\* normalizedCombinationId(keysInComboDict) on the outcome of
\* parseCombination (lines 94 and 99); an exception of either is kept
normalize(run, parsed, armed) ==
  IF parsed.error # "none"
  THEN [run EXCEPT !.stdCalls = @ \o parsed.stdCalls,
                   !.validCalls = @ \o parsed.validCalls,
                   !.error = parsed.error]
  ELSE IF normalizedCombinationIdThrows(parsed.keyDictionary, armed)
  THEN [run EXCEPT !.stdCalls = @ \o parsed.stdCalls,
                   !.validCalls = @ \o parsed.validCalls,
                   !.error = "Error"]
  ELSE [run EXCEPT !.stdCalls = @ \o parsed.stdCalls,
                   !.validCalls = @ \o parsed.validCalls,
                   !.ids = Append(@, normalizedCombinationId(parsed.keyDictionary)),
                   !.dicts = Append(@, parsed.keyDictionary)]

\* parseCombination followed by normalizedCombinationId on one combination
\* (lines 92-94 and 97-99); run.error is the pending exception
visit(run, keyCombination, opts, armed) ==
  IF run.error # "none" THEN run
  ELSE normalize(run, parseCombination(keyCombination, opts, armed), armed)

RECURSIVE map(_, _, _, _)
\* nonTerminalCombinations.map(...) (lines 91-95)
map(run, array, opts, armed) ==
  IF array = <<>> THEN run
  ELSE map(visit(run, array[1], opts, armed), Tail(array), opts, armed)

\* faulty variant of FailureResult: only the combination is null
HalfFailureResult ==
  [sequence |-> <<[prefix |-> <<>>, size |-> 0]>>, combination |-> <<>>]

\* the failure result (line 110)
FailureResult == [sequence |-> <<>>, combination |-> <<>>]

\* faulty variant of Catches: only the validation error is caught
CatchesInvalidKeyNameError(error) == error = "InvalidKeyNameError"

\* catch (InvalidKeyNameError) (line 109): the identifier only names the
\* caught value, so the clause catches every exception
Catches(error) == TRUE

\* the calls made and the exception raised inside the try block
log(run) ==
  [raised |-> run.error, stdCalls |-> run.stdCalls,
   validCalls |-> run.validCalls, dicts |-> run.dicts]

\* lines 101-106
combination(normalizedComboString, keysInComboDict, opts) ==
  [id |-> normalizedComboString,
   keyDictionary |-> keysInComboDict,
   keyEventType |-> IF opts.has THEN <<opts.keyEventType>> ELSE <<>>,
   size |-> Len(keysInComboDict)]

\* the return statements of lines 108 and 110, or the exception let through
finish(prefix, size, run, opts) ==
  IF run.error = "none"
  THEN [returned |->
          <<[sequence |-> <<[prefix |-> prefix, size |-> size]>>,
             combination |->
               <<combination(run.ids[Len(run.ids)],
                             run.dicts[Len(run.dicts)], opts)>>]>>,
        thrown |-> "none", log |-> log(run)]
  ELSE IF Catches(run.error)
  THEN [returned |-> <<FailureResult>>, thrown |-> "none", log |-> log(run)]
  ELSE [returned |-> <<>>, thrown |-> run.error, log |-> log(run)]

\* lines 97-108: the terminal combination, after the prefix
terminal(mapped, nonTerminal, terminalString, opts, armed) ==
  finish(join(mapped.ids, <<" ">>), Len(nonTerminal) + 1,
         visit(mapped, terminalString, opts, armed), opts)

\* the try block (lines 87-111) on the array of combination substrings
try(array, opts, armed) ==
  terminal(map([ids |-> <<>>, dicts |-> <<>>, stdCalls |-> <<>>,
                validCalls |-> <<>>, error |-> "none"],
               nonTerminalCombinations(array), opts, armed),
           nonTerminalCombinations(array), terminalCombination(array),
           opts, armed)

\* the outcome of parse: the value returned or the exception thrown to the
\* caller, with the exception raised inside the try block and the calls made
parse(string, opts, armed) == try(keyCombinationsArray(string), opts, armed)

(***************************************************************************)
(* The caller: it composes a sequence string and an options object, then   *)
(* calls parse once.                                                       *)
(***************************************************************************)
\* options = {} (line 82): has tells whether the caller set the properties;
\* an absent ensureValidKeys reads as undefined, which is falsy, and an
\* absent keyEventType reads as undefined, the empty tuple in the result
DefaultOptions == [has |-> FALSE, ensureValidKeys |-> FALSE, keyEventType |-> 0]

Options ==
  {DefaultOptions}
    \cup [has : {TRUE}, ensureValidKeys : BOOLEAN, keyEventType : {0, 1}]

KeyFrags ==
  { <<"a">>, <<"b">>, <<"+">>, <<" ">>, <<"e", "s", "c">>,
    <<"E", "s", "c", "a", "p", "e">>, <<"f", "o", "o">> }

SeqFrags == { <<"a">>, <<"b">>, <<"+">>, <<" ">> }

ModFrags ==
  { <<"a">>, <<"+">>, <<"s", "h", "i", "f", "t">>, <<"A", "l", "t">>,
    ShiftPattern, AltPattern }

FaultFrags ==
  { <<"a">>, <<"b">>, <<"+">>, <<" ">>, <<"\t">>, <<"f", "o", "o">> }

Init ==
  /\ sequenceString = <<>>
  /\ typed = 0
  /\ options = DefaultOptions
  /\ faults = {}
  /\ pc = "compose"
  /\ returned = <<>>
  /\ thrown = "none"
  /\ raised = "none"
  /\ stdCalls = <<>>
  /\ validCalls = <<>>
  /\ dicts = <<>>

result == <<returned, thrown, raised, stdCalls, validCalls, dicts>>

\* the caller appends one fragment to the sequence string
Type(frags, max) ==
  /\ pc = "compose"
  /\ typed < max
  /\ \E f \in frags : sequenceString' = sequenceString \o f
  /\ typed' = typed + 1
  /\ UNCHANGED <<options, faults, pc, result>>

TypeKey == Type(KeyFrags, MaxFrags)

TypeSeq == Type(SeqFrags, MaxSeqFrags)

TypeMod == Type(ModFrags, MaxModFrags)

TypeFault == Type(FaultFrags, MaxFaultFrags)

\* the caller chooses the options object
SetOptions ==
  /\ pc = "compose"
  /\ \E o \in Options \ {options} : options' = o
  /\ UNCHANGED <<sequenceString, typed, faults, pc, result>>

\* a collaborator is set up to fail
Arm ==
  /\ pc = "compose"
  /\ \E c \in Collaborators \ faults : faults' = faults \cup {c}
  /\ UNCHANGED <<sequenceString, typed, options, pc, result>>

\* the caller receives the outcome of parse
Outcome(outcome) ==
  /\ returned' = outcome.returned
  /\ thrown' = outcome.thrown
  /\ raised' = outcome.log.raised
  /\ stdCalls' = outcome.log.stdCalls
  /\ validCalls' = outcome.log.validCalls
  /\ dicts' = outcome.log.dicts

\* KeySequenceParser.parse(sequenceString, options)
CallParse ==
  /\ pc = "compose"
  /\ Outcome(parse(sequenceString, options, faults))
  /\ pc' = "done"
  /\ UNCHANGED <<sequenceString, typed, options, faults>>

Next == TypeKey \/ SetOptions \/ CallParse

Spec == Init /\ [][Next]_vars

NextSeq == TypeSeq \/ SetOptions \/ CallParse

SpecSeq == Init /\ [][NextSeq]_vars

NextMod == TypeMod \/ SetOptions \/ CallParse

SpecMod == Init /\ [][NextMod]_vars

NextFault == TypeFault \/ SetOptions \/ Arm \/ CallParse

SpecFault == Init /\ [][NextFault]_vars

(***************************************************************************)
(* Properties                                                              *)
(***************************************************************************)
Done == pc = "done"

\* parse returned { sequence: null, combination: null }
Failed ==
  /\ Done
  /\ thrown = "none"
  /\ returned = <<[sequence |-> <<>>, combination |-> <<>>]>>

\* parse returned a populated sequence and a populated combination
Succeeded ==
  /\ Done
  /\ thrown = "none"
  /\ returned # <<>>
  /\ returned[1].sequence # <<>>
  /\ returned[1].combination # <<>>

TheSequence == returned[1].sequence[1]

TheCombination == returned[1].combination[1]

\* the combination substrings of the input
Combinations == split(stripSuperfluousWhitespace(sequenceString), " ")

LastCombination == Combinations[Len(Combinations)]

\* the modifier context the code computes for a combination substring
Modifiers(string) == [shift |-> shiftPressed(string), alt |-> altPressed(string)]

\* the canonical names of the raw tokens of a combination substring
CanonicalNames(string) ==
  {standardizeKeyName(t, Modifiers(string)) : t \in Range(keyNames(string))}

Plus == <<"p", "l", "u", "s">>

StartsWith(string, head) ==
  Len(string) >= Len(head) /\ SubSeq(string, 1, Len(head)) = head

C2_NullTogether ==
  Done => /\ returned # <<>>
          /\ (returned[1].sequence = <<>>) <=> (returned[1].combination = <<>>)

C2_Witness == Failed /\ raised # "none" /\ Len(dicts) >= 1

Reorderings(array) ==
  LET n == Len(array)
      bijections == {f \in [1..n -> 1..n] : \A i, j \in 1..n : f[i] = f[j] => i = j}
  IN {[i \in 1..n |-> array[f[i]]] : f \in bijections}

\* the sequence string with its terminal combination replaced
WithTerminal(string) ==
  join(SubSeq(Combinations, 1, Len(Combinations) - 1) \o <<string>>, <<" ">>)

\* <<combination.id, key set of combination.keyDictionary>> of an outcome of
\* parse, <<>> when parse did not return a combination
IdAndKeys(outcome) ==
  IF outcome.returned = <<>> THEN <<>>
  ELSE IF outcome.returned[1].combination = <<>> THEN <<>>
  ELSE <<outcome.returned[1].combination[1].id,
         Range(outcome.returned[1].combination[1].keyDictionary)>>

\* C3: two terminal combination strings made of the same non-empty key
\* tokens joined by '+' in a different order parse to the same
\* combination.id and the same keyDictionary key set.
C3_OrderIndependent ==
  LET tokens == split(LastCombination, "+")
  IN ( /\ Succeeded
       /\ \A i \in 1..Len(tokens) : tokens[i] # <<>> )
     => \A p \in Reorderings(tokens) :
          IdAndKeys(parse(WithTerminal(join(p, <<"+">>)), options, faults))
            = <<TheCombination.id, Range(TheCombination.keyDictionary)>>

\* a terminal combination of three different keys typed out of sorted order
C3_Witness ==
  /\ Succeeded
  /\ TheCombination.size = 3
  /\ \A t \in Range(split(LastCombination, "+")) : t # <<>>
  /\ TheCombination.keyDictionary # sort(TheCombination.keyDictionary)

IdAlone(string) == parse(string, options, faults).returned[1].combination[1].id

\* C5: whenever parse succeeds on an input whose whitespace-normalized form
\* has n space-separated combination substrings, sequence.size = n and
\* sequence.prefix is the normalized ids of the first n-1 combinations, in
\* input order, joined by single spaces: the empty string for n = 1, and
\* the terminal combination contributes no id to it.
C5_PrefixAndSize ==
  Succeeded =>
    LET normalized == stripSuperfluousWhitespace(sequenceString)
        n == 1 + Cardinality({i \in 1..Len(normalized) : normalized[i] = " "})
        combos == split(normalized, " ")
    IN /\ TheSequence.size = n
       /\ TheSequence.prefix
            = join([i \in 1..(n - 1) |-> IdAlone(combos[i])], <<" ">>)
       /\ n = 1 => TheSequence.prefix = <<>>
       /\ n > 1 => Len(split(TheSequence.prefix, " ")) = n - 1

\* three combinations, the first of two keys typed out of sorted order
C5_Witness ==
  /\ Succeeded
  /\ TheSequence.size = 3
  /\ Len(dicts) = 3
  /\ dicts[1] # dicts[2]
  /\ Len(dicts[1]) = 2
  /\ dicts[1] # sort(dicts[1])

\* a collaborator other than the validity predicate throws during the call
StandardizerOrNormalizerThrows ==
  \E k \in 1..Len(Combinations) :
    \/ \E t \in Range(keyNames(Combinations[k])) :
         standardizeKeyNameThrows(t, faults)
    \/ normalizedCombinationIdThrows(
         [i \in 1..Len(keyNames(Combinations[k])) |->
            standardizeKeyName(keyNames(Combinations[k])[i],
                               Modifiers(Combinations[k]))], faults)

\* C6: with ensureValidKeys false or absent the validity predicate is never
\* invoked and an unrecognized token never causes failure: unless the
\* standardizer or the normalizer throws, parse returns a non-null sequence
\* and combination and each token's standardized name is a key of the
\* keyDictionary of its combination.
C6_NoValidationWhenNotAsked ==
  (Done /\ ~options.ensureValidKeys) =>
    /\ validCalls = <<>>
    /\ raised # "InvalidKeyNameError"
    /\ ~StandardizerOrNormalizerThrows =>
         /\ Succeeded
         /\ Len(dicts) = Len(Combinations)
         /\ \A k \in 1..Len(Combinations) :
              CanonicalNames(Combinations[k]) \subseteq Range(dicts[k])

\* an unrecognized token, in a prefix combination, with the validity
\* predicate set up to throw if it were called
C6_Witness ==
  /\ Succeeded
  /\ ~options.has
  /\ "isValidKey" \in faults
  /\ Len(dicts) = 2
  /\ \E name \in Range(dicts[1]) : ~isValidKey(name)
  /\ FaultyKey \in Range(dicts[2])

\* C7 as stated: for a combination string that begins with '+' the first raw
\* token handed to the standardizer is `plus`.
C7_FirstTokenIsPlus ==
  Done => \A i \in 1..Len(stdCalls) :
            (stdCalls[i].index = 1 /\ StartsWith(stdCalls[i].string, <<"+">>))
              => stdCalls[i].keyName = Plus

\* C7 (amended): for a combination string that begins with '+' the leading
\* '+' is rewritten to `plus` before splitting, so the first raw token handed
\* to the standardizer begins with `plus` (it is `plus` followed by the
\* characters up to the next '+') and is never empty; the string "+" alone
\* yields exactly one raw token, `plus`, and on success a combination of
\* size 1.
C7_FirstTokenStartsWithPlus ==
  Done =>
    /\ \A i \in 1..Len(stdCalls) :
         (stdCalls[i].index = 1 /\ StartsWith(stdCalls[i].string, <<"+">>))
           => /\ StartsWith(stdCalls[i].keyName, Plus)
              /\ stdCalls[i].keyName
                   = Plus \o split(Tail(stdCalls[i].string), "+")[1]
    /\ \A i \in 1..Len(stdCalls) :
         stdCalls[i].string = <<"+">>
           => stdCalls[i].index = 1 /\ stdCalls[i].keyName = Plus
    /\ (Succeeded /\ LastCombination = <<"+">>) => TheCombination.size = 1

\* a leading '+' followed by a key, and the string "+" alone
C7_Witness ==
  /\ Succeeded
  /\ LastCombination = <<"+">>
  /\ \E i \in 1..Len(stdCalls) :
       /\ stdCalls[i].index = 1
       /\ StartsWith(stdCalls[i].string, <<"+">>)
       /\ stdCalls[i].keyName # Plus

toLowerCase(c) ==
  IF c = "A" THEN "a" ELSE IF c = "B" THEN "b"
  ELSE IF c = "E" THEN "e" ELSE IF c = "S" THEN "s" ELSE c

\* whether the string contains the word, letter case ignored
IncludesIgnoreCase(string, word) ==
  Includes([i \in 1..Len(string) |-> toLowerCase(string[i])], word)

\* C8: the shift flag passed to the standardizer is true if and only if the
\* combination substring contains "shift" case-insensitively, and the alt
\* flag if and only if it contains "alt" case-insensitively, the same for
\* every token of the combination.
C8_ModifierFlags ==
  Done => \A i \in 1..Len(stdCalls) :
            /\ stdCalls[i].shift
                 <=> IncludesIgnoreCase(stdCalls[i].string, <<"s", "h", "i", "f", "t">>)
            /\ stdCalls[i].alt
                 <=> IncludesIgnoreCase(stdCalls[i].string, <<"a", "l", "t">>)

\* C9: for every non-empty combination string, every raw token handed to the
\* standardizer is a non-empty string.
C9_NoEmptyToken ==
  Done => \A i \in 1..Len(stdCalls) :
            stdCalls[i].string # <<>> => stdCalls[i].keyName # <<>>

====
